---- MODULE Spec2Model ----
(***************************************************************************)
(* Submission execution core of tuis-oj: the Redis queue broker, the       *)
(* submission rows kept in PostgreSQL, the worker loop and the reclaimer   *)
(* of cmd/worker/main.go.                                                  *)
(*                                                                         *)
(* The pending list is a sequence whose index 1 is the Redis head (the     *)
(* LPUSH end) and whose last index is the Redis tail (the RPOP end).  The  *)
(* in-flight sorted set is a function from its members to their scores.    *)
(* Time is counted in units of one visibility timeout (30 s).              *)
(***************************************************************************)
EXTENDS Integers, Sequences, FiniteSets, TLC

\* ---------------------------------------------------------------- bounds
MaxSub == 1
MaxJob == 3
NumWorkers == 2
MaxTime == 2
MaxFaults == 1
MaxLeases == 5
MaxCopies == 2
MaxCases == 2
MaxCost == 2
MaxLen == 3
MaxEps == 1

\* ------------------------------------------------------ program constants
maxRetries == 3
DefaultVisibilityTimeout == 1

Ids == 1..MaxSub
Jobs == 1..MaxJob
Workers == 1..NumWorkers
Nil == 0

VARIABLES
    status,       \* submissions.status of every row ("none": no row yet)
    retry_count,  \* submissions.retry_count
    verdict,      \* submission_results.verdict ("none": no result row)
    pending,      \* list pending_submissions
    inflight,     \* sorted set processing_submissions: member -> score
    now,          \* wall clock
    pc,           \* position of every worker goroutine in its loop
    job,          \* job held by every worker (Nil: none)
    owns,         \* AcquirePending succeeded in the worker's current job
    ret,          \* verdict Process returned to the worker ("": none yet)
    rpc,          \* position of the reclaimer goroutine
    rjobs,        \* jobs returned by RequeueExpired, not yet handled
    faultsLeft,   \* failures of database / broker calls still to come
    sandbox,      \* the judge sandbox: "up", "down" or "flaky"
    acquired,     \* history: successful AcquirePending calls per id
    sinceReset,   \* history: the same, since the row was last set to pending
    requeued,     \* history: re-enqueues by the retry path per id
    qnext,        \* broker client: the next fresh payload to enqueue
    qlog,         \* history: the values in the order Reserve returned them
    input,        \* arguments of a call of a pure function of the judge
    output,       \* what the call returned: <<>> before it, <<result>> after
    hb,           \* HeartbeatState: status, running map (its keys), RunningCount
    hbpc,         \* position of the heartbeat task
    cancelled,    \* the context of the worker process, or of the intake
                  \* request, is cancelled
    ipc,          \* position of the intake handler of every submission
    source_path   \* submissions.source_path is recorded (FALSE: still empty)

vars == <<status, retry_count, verdict, pending, inflight, now, pc, job, owns,
          ret, rpc, rjobs, faultsLeft, sandbox, acquired, sinceReset, requeued,
          qnext, qlog, input, output, hb, hbpc, cancelled, ipc, source_path>>

dbVars == <<status, retry_count, verdict>>
queueVars == <<pending, inflight>>
workerVars == <<pc, job, owns, ret>>
reclaimerVars == <<rpc, rjobs>>
envVars == <<faultsLeft, sandbox>>
historyVars == <<acquired, sinceReset, requeued>>
clientVars == <<qnext, qlog>>
callVars == <<input, output>>
processVars == <<hb, hbpc, cancelled>>
intakeVars == <<ipc, source_path>>

\* ------------------------------------------------------------ sequences
Last(s) == s[Len(s)]
Front(s) == SubSeq(s, 1, Len(s) - 1)
Range(s) == {s[k] : k \in 1..Len(s)}

RECURSIVE Reverse(_)
Reverse(s) == IF s = <<>> THEN <<>> ELSE Append(Reverse(Tail(s)), Head(s))

\* ------------------------------------------------------- the queue broker
\* LPUSH pendingKey value
EnqueueBadTail(p, v) == Append(p, v)

Enqueue(p, v) == <<v>> \o p

\* ZADD key score member: insert the member or overwrite its score
ZAdd(z, score, v) ==
    [x \in (DOMAIN z) \cup {v} |-> IF x = v THEN score ELSE z[x]]

\* ZREM key member...
ZRem(z, S) == [x \in (DOMAIN z) \ S |-> z[x]]

\* the Lua script of Reserve: RPOP, then ZADD when a value was popped
ReserveBadNoInsert(p, z, score) ==
    IF p = <<>>
    THEN [v |-> Nil, pending |-> p, inflight |-> z]
    ELSE [v |-> Last(p), pending |-> Front(p), inflight |-> z]

Reserve(p, z, score) ==
    IF p = <<>>
    THEN [v |-> Nil, pending |-> p, inflight |-> z]
    ELSE [v |-> Last(p), pending |-> Front(p),
          inflight |-> ZAdd(z, score, Last(p))]

\* ZREM processingKey value; ZRem's reply (0 or 1 removed) is not an error
AckBadPopMin(z, v) ==
    [inflight |-> IF DOMAIN z = {} THEN z
                  ELSE ZRem(z, {CHOOSE x \in DOMAIN z :
                                  \A y \in DOMAIN z : z[x] < z[y] \/ (z[x] = z[y] /\ x <= y)}),
     err |-> FALSE]

Ack(z, v) == [inflight |-> ZRem(z, {v}), err |-> FALSE]

\* ZRANGEBYSCORE key -inf now: members by ascending score, ties by member
RECURSIVE RangeByScore(_, _)
RangeByScore(z, S) ==
    IF S = {} THEN <<>>
    ELSE LET m == CHOOSE x \in S :
                    \A y \in S : z[x] < z[y] \/ (z[x] = z[y] /\ x <= y)
         IN  <<m>> \o RangeByScore(z, S \ {m})

\* the Lua script of RequeueExpired: ZRANGEBYSCORE, ZREM, LPUSH unpack(vals)
RequeueExpiredBadAll(z, p, t) ==
    LET vals == RangeByScore(z, DOMAIN z)
    IN  [vals |-> vals,
         inflight |-> ZRem(z, Range(vals)),
         pending |-> Reverse(vals) \o p]

RequeueExpired(z, p, t) ==
    LET vals == RangeByScore(z, {x \in DOMAIN z : z[x] <= t})
    IN  [vals |-> vals,
         inflight |-> ZRem(z, Range(vals)),
         pending |-> Reverse(vals) \o p]

\* --------------------------------------------------- the submission store
\* PgSubmissionRepository.AcquirePending: SELECT ... FOR UPDATE, check, UPDATE
AcquirePendingNoCheck(st, id) ==
    IF st[id] = "none" THEN [res |-> "err", status |-> st]
    ELSE [res |-> "ok", status |-> [st EXCEPT ![id] = "running"]]

AcquirePendingBadNoUpdate(st, id) ==
    IF st[id] = "none" THEN [res |-> "err", status |-> st]
    ELSE IF st[id] # "pending" THEN [res |-> "NotPending", status |-> st]
    ELSE [res |-> "ok", status |-> st]

AcquirePending(st, id) ==
    IF st[id] = "none" THEN [res |-> "err", status |-> st]
    ELSE IF st[id] # "pending" THEN [res |-> "NotPending", status |-> st]
    ELSE [res |-> "ok", status |-> [st EXCEPT ![id] = "running"]]

\* PgSubmissionRepository.MarkStatus: UPDATE submissions SET status
MarkStatusBadRunning(st, id, s) ==
    IF st[id] = "none" THEN [err |-> TRUE, status |-> st]
    ELSE [err |-> FALSE, status |-> [st EXCEPT ![id] = "running"]]

MarkStatus(st, id, s) ==
    IF st[id] = "none" THEN [err |-> TRUE, status |-> st]
    ELSE [err |-> FALSE, status |-> [st EXCEPT ![id] = s]]

\* PgSubmissionRepository.SaveResult: status and result row in one transaction
SaveResult(st, vd, id, v, finalStatus) ==
    IF st[id] = "none" THEN [err |-> TRUE, status |-> st, verdict |-> vd]
    ELSE [err |-> FALSE,
          status |-> [st EXCEPT ![id] = finalStatus],
          verdict |-> [vd EXCEPT ![id] = v]]

\* PgSubmissionRepository.IncrementRetry: UPDATE ... RETURNING retry_count
IncrementRetry(rc, st, id) ==
    IF st[id] = "none" THEN [count |-> 0, err |-> TRUE, retry_count |-> rc]
    ELSE [count |-> rc[id] + 1, err |-> FALSE,
          retry_count |-> [rc EXCEPT ![id] = rc[id] + 1]]

\* the verdicts Process can persist, and the final status of each
JudgeVerdicts == {"AC", "WA", "CE"}
FinalStatus(v) == IF v = "AC" THEN "succeeded" ELSE "failed"

\* the branch of the worker loop taken on a processor error: newRetry <= maxRetries
RetryAllowedBadStrict(n) == n < maxRetries
RetryAllowed(n) == n <= maxRetries

\* where the worker goes on the result of Process's AcquirePending: on to
\* judging, to the Ack of the ErrSubmissionNotPending branch, or to the retry
\* handling of any other error
AfterAcquireBadRetry(res) ==
    CASE res = "ok" -> "judge"
      [] OTHER -> "incRetry"

AfterAcquire(res) ==
    CASE res = "ok" -> "judge"
      [] res = "NotPending" -> "ack"
      [] OTHER -> "incRetry"

\* ---------------------------------------------------------------- Init
\* the state after construction; the environment (failures to come, sandbox)
\* is what the specifications differ in
SystemInit(f, sb) ==
    /\ status = [i \in Ids |-> "none"]
    /\ retry_count = [i \in Ids |-> 0]
    /\ verdict = [i \in Ids |-> "none"]
    /\ pending = <<>>
    /\ inflight = <<>>
    /\ now = 0
    /\ pc = [w \in Workers |-> "reserve"]
    /\ job = [w \in Workers |-> Nil]
    /\ owns = [w \in Workers |-> FALSE]
    /\ ret = [w \in Workers |-> ""]
    /\ rpc = "wait"
    /\ rjobs = <<>>
    /\ faultsLeft = f
    /\ sandbox = sb
    /\ acquired = [i \in Ids |-> 0]
    /\ sinceReset = [i \in Ids |-> 0]
    /\ requeued = [i \in Ids |-> 0]
    /\ qnext = 1
    /\ qlog = <<>>
    /\ hb = [status |-> "starting", running |-> {}, running_count |-> 0]
    /\ hbpc = "run"
    /\ cancelled = FALSE
    /\ ipc = [i \in Ids |-> "idle"]
    /\ source_path = [i \in Ids |-> FALSE]

InitWith(f, sb) ==
    /\ SystemInit(f, sb)
    /\ input = <<>>
    /\ output = <<>>

Init == InitWith(MaxFaults, "flaky")

\* a database or broker call may fail, a bounded number of times
CanFail == faultsLeft > 0
Fail == faultsLeft' = faultsLeft - 1

\* ------------------------------------------------------------- intake
\* createSubmissionWithSource: Create (status pending), store source, Enqueue
Submit(i) ==
    /\ status[i] = "none"
    /\ \A k \in Ids : k < i => status[k] # "none"
    /\ status' = [status EXCEPT ![i] = "pending"]
    /\ pending' = Enqueue(pending, i)
    /\ UNCHANGED <<retry_count, verdict, inflight, now, workerVars,
                   reclaimerVars, envVars, historyVars, clientVars, callVars,
                   processVars, intakeVars>>

\* ------------------------------------------------------------- the clock
\* time that passes while no lease is running changes nothing that is read
Tick ==
    /\ now < MaxTime
    /\ \E x \in DOMAIN inflight : inflight[x] > now
    /\ now' = now + 1
    /\ UNCHANGED <<dbVars, queueVars, workerVars, reclaimerVars, envVars,
                   historyVars, clientVars, callVars,
                   processVars, intakeVars>>

\* -------------------------------------------------------- the worker loop
\* queue.Reserve(ctx, pendingKey, processingKey, visibility); on redis.Nil the
\* worker sleeps and reserves again
WorkerReserve(w) ==
    /\ pc[w] = "reserve"
    /\ LET r == Reserve(pending, inflight, now + DefaultVisibilityTimeout)
       IN  /\ r.v # Nil
           /\ pending' = r.pending
           /\ inflight' = r.inflight
           /\ job' = [job EXCEPT ![w] = r.v]
           /\ pc' = [pc EXCEPT ![w] = "acquire"]
    /\ UNCHANGED <<dbVars, now, owns, ret, reclaimerVars, envVars,
                   historyVars, clientVars, callVars,
                   processVars, intakeVars>>

\* processor.Process: strconv.ParseInt succeeded;
\* p.subRepo.AcquirePending(ctx, id)
WorkerAcquire(w) ==
    /\ pc[w] = "acquire"
    /\ job[w] \in Ids
    /\ \/ LET a == AcquirePending(status, job[w])
          IN  /\ status' = a.status
              /\ owns' = [owns EXCEPT ![w] = (a.res = "ok")]
              /\ acquired' = [acquired EXCEPT
                                ![job[w]] = IF a.res = "ok" THEN @ + 1 ELSE @]
              /\ sinceReset' = [sinceReset EXCEPT
                                ![job[w]] = IF a.res = "ok" THEN @ + 1 ELSE @]
              /\ pc' = [pc EXCEPT ![w] = AfterAcquire(a.res)]
              /\ UNCHANGED faultsLeft
       \/ /\ CanFail
          /\ Fail
          /\ pc' = [pc EXCEPT ![w] = "incRetry"]
          /\ UNCHANGED <<status, owns, acquired, sinceReset>>
    /\ UNCHANGED <<retry_count, verdict, queueVars, now, job, ret,
                   reclaimerVars, sandbox, requeued, clientVars, callVars,
                   processVars, intakeVars>>

\* processor.Process after the acquire: read source, compile, run, SaveResult
WorkerJudge(w) ==
    /\ pc[w] = "judge"
    /\ \/ \* a system error: Process returns it without saving anything
          /\ sandbox # "up"
          /\ pc' = [pc EXCEPT ![w] = "incRetry"]
          /\ UNCHANGED <<status, verdict, faultsLeft, ret>>
       \/ \* a verdict: SaveResult, whose error is only logged
          /\ sandbox # "down"
          /\ \E v \in JudgeVerdicts :
               /\ pc' = [pc EXCEPT ![w] = "ack"]
               /\ ret' = [ret EXCEPT ![w] = v]
               /\ \/ LET s == SaveResult(status, verdict, job[w], v, FinalStatus(v))
                     IN  /\ status' = s.status
                         /\ verdict' = s.verdict
                         /\ UNCHANGED faultsLeft
                  \/ /\ CanFail
                     /\ Fail
                     /\ UNCHANGED <<status, verdict>>
    /\ UNCHANGED <<retry_count, queueVars, now, job, owns,
                   reclaimerVars, sandbox, historyVars, clientVars, callVars,
                   processVars, intakeVars>>

\* newRetry, incErr := repo.IncrementRetry(ctx, id); the error is only logged
\* and newRetry is then 0; the branch on newRetry <= maxRetries follows
WorkerIncrementRetry(w) ==
    /\ pc[w] = "incRetry"
    /\ \/ LET r == IncrementRetry(retry_count, status, job[w])
          IN  /\ retry_count' = r.retry_count
              /\ pc' = [pc EXCEPT ![w] =
                          IF RetryAllowed(r.count) THEN "markPending" ELSE "saveSE"]
              /\ UNCHANGED faultsLeft
       \/ /\ CanFail
          /\ Fail
          /\ pc' = [pc EXCEPT ![w] =
                      IF RetryAllowed(0) THEN "markPending" ELSE "saveSE"]
          /\ UNCHANGED retry_count
    /\ UNCHANGED <<status, verdict, queueVars, now, job, owns, ret,
                   reclaimerVars, sandbox, historyVars, clientVars, callVars,
                   processVars, intakeVars>>

\* _ = repo.MarkStatus(ctx, id, "pending")
WorkerMarkPending(w) ==
    /\ pc[w] = "markPending"
    /\ pc' = [pc EXCEPT ![w] = "enqueue"]
    /\ \/ LET m == MarkStatus(status, job[w], "pending")
          IN  /\ status' = m.status
              /\ sinceReset' = [sinceReset EXCEPT
                                  ![job[w]] = IF m.err THEN @ ELSE 0]
              /\ UNCHANGED faultsLeft
       \/ /\ CanFail
          /\ Fail
          /\ UNCHANGED <<status, sinceReset>>
    /\ UNCHANGED <<retry_count, verdict, queueVars, now, job, owns, ret,
                   reclaimerVars, sandbox, acquired, requeued, clientVars, callVars,
                   processVars, intakeVars>>

\* queue.Enqueue(ctx, pendingKey, job); the error is only logged
WorkerEnqueue(w) ==
    /\ pc[w] = "enqueue"
    /\ pc' = [pc EXCEPT ![w] = "ack"]
    /\ \/ /\ pending' = Enqueue(pending, job[w])
          /\ requeued' = [requeued EXCEPT ![job[w]] = @ + 1]
          /\ UNCHANGED faultsLeft
       \/ /\ CanFail
          /\ Fail
          /\ UNCHANGED <<pending, requeued>>
    /\ UNCHANGED <<dbVars, inflight, now, job, owns, ret,
                   reclaimerVars, sandbox, acquired, sinceReset, clientVars, callVars,
                   processVars, intakeVars>>

\* the poison-pill branch: repo.SaveResult(ctx, res{Verdict: "SE"}, "failed")
WorkerSaveSE(w) ==
    /\ pc[w] = "saveSE"
    /\ pc' = [pc EXCEPT ![w] = "ack"]
    /\ \/ LET s == SaveResult(status, verdict, job[w], "SE", "failed")
          IN  /\ status' = s.status
              /\ verdict' = s.verdict
              /\ UNCHANGED faultsLeft
       \/ /\ CanFail
          /\ Fail
          /\ UNCHANGED <<status, verdict>>
    /\ UNCHANGED <<retry_count, queueVars, now, job, owns, ret,
                   reclaimerVars, sandbox, historyVars, clientVars, callVars,
                   processVars, intakeVars>>

\* queue.Ack(ctx, processingKey, job); the error is only logged
WorkerAck(w) ==
    /\ pc[w] = "ack"
    /\ pc' = [pc EXCEPT ![w] = "reserve"]
    /\ job' = [job EXCEPT ![w] = Nil]
    /\ owns' = [owns EXCEPT ![w] = FALSE]
    /\ ret' = [ret EXCEPT ![w] = ""]
    /\ \/ /\ inflight' = Ack(inflight, job[w]).inflight
          /\ UNCHANGED faultsLeft
       \/ /\ CanFail
          /\ Fail
          /\ UNCHANGED inflight
    /\ UNCHANGED <<dbVars, pending, now, reclaimerVars, sandbox,
                   historyVars, clientVars, callVars,
                   processVars, intakeVars>>

\* ---------------------------------------------------------- the reclaimer
\* case <-ticker.C: queue.RequeueExpired(ctx, processingKey, pendingKey, now)
ReclaimerRequeue ==
    /\ rpc = "wait"
    /\ LET r == RequeueExpired(inflight, pending, now)
       IN  /\ r.vals # <<>>
           /\ inflight' = r.inflight
           /\ pending' = r.pending
           /\ rjobs' = r.vals
           /\ rpc' = "mark"
    /\ UNCHANGED <<dbVars, now, workerVars, envVars, historyVars, clientVars, callVars,
                   processVars, intakeVars>>

\* _ = repo.MarkStatus(ctx, id, "pending")
ReclaimerMarkStatus ==
    /\ rpc = "mark"
    /\ rpc' = "inc"
    /\ \/ LET m == MarkStatus(status, Head(rjobs), "pending")
          IN  /\ status' = m.status
              /\ sinceReset' = [sinceReset EXCEPT
                                  ![Head(rjobs)] = IF m.err THEN @ ELSE 0]
              /\ UNCHANGED faultsLeft
       \/ /\ CanFail
          /\ Fail
          /\ UNCHANGED <<status, sinceReset>>
    /\ UNCHANGED <<retry_count, verdict, queueVars, now, workerVars, rjobs,
                   sandbox, acquired, requeued, clientVars, callVars,
                   processVars, intakeVars>>

\* _, _ = repo.IncrementRetry(ctx, id)
ReclaimerIncrementRetry ==
    /\ rpc = "inc"
    /\ rjobs' = Tail(rjobs)
    /\ rpc' = IF Tail(rjobs) = <<>> THEN "wait" ELSE "mark"
    /\ \/ /\ retry_count' = IncrementRetry(retry_count, status, Head(rjobs)).retry_count
          /\ UNCHANGED faultsLeft
       \/ /\ CanFail
          /\ Fail
          /\ UNCHANGED retry_count
    /\ UNCHANGED <<status, verdict, queueVars, now, workerVars,
                   sandbox, historyVars, clientVars, callVars,
                   processVars, intakeVars>>

WorkerStep ==
    \/ \E w \in Workers : WorkerReserve(w)
    \/ \E w \in Workers : WorkerAcquire(w)
    \/ \E w \in Workers : WorkerJudge(w)
    \/ \E w \in Workers : WorkerIncrementRetry(w)
    \/ \E w \in Workers : WorkerMarkPending(w)
    \/ \E w \in Workers : WorkerEnqueue(w)
    \/ \E w \in Workers : WorkerSaveSE(w)
    \/ \E w \in Workers : WorkerAck(w)

Next ==
    \/ \E i \in Ids : Submit(i)
    \/ Tick
    \/ WorkerStep
    \/ ReclaimerRequeue
    \/ ReclaimerMarkStatus
    \/ ReclaimerIncrementRetry

\* the worker process with database and broker calls that may fail
Spec == Init /\ [][Next]_vars

\* the worker process while every database and broker call succeeds
HealthyInit == InitWith(0, "flaky")
HealthySpec == HealthyInit /\ [][Next]_vars

\* scenario S6: the sandbox is down for every attempt, the database and the
\* broker are healthy and no lease runs out
PoisonInit == InitWith(0, "down")
PoisonNext == (\E i \in Ids : Submit(i)) \/ WorkerStep
PoisonSpec == PoisonInit /\ [][PoisonNext]_vars

\* ------------------------------------------- worker crashes (scenario S5)
\* the worker process dies, or stalls for good, inside Process after
\* AcquirePending: nothing is saved, nothing is acked, the goroutine is gone;
\* the worker that takes its place starts at the top of the loop
WorkerCrash(w) ==
    /\ pc[w] = "judge"
    /\ pc' = [pc EXCEPT ![w] = "reserve"]
    /\ job' = [job EXCEPT ![w] = Nil]
    /\ owns' = [owns EXCEPT ![w] = FALSE]
    /\ ret' = [ret EXCEPT ![w] = ""]
    /\ UNCHANGED <<dbVars, queueVars, now, reclaimerVars, envVars,
                   historyVars, clientVars, callVars,
                   processVars, intakeVars>>

\* the clock while leases run out only because their worker is gone: live
\* workers finish their job well within the visibility timeout
LeaseTick ==
    /\ now < MaxLeases
    /\ \A w \in Workers : job[w] = Nil
    /\ \E x \in DOMAIN inflight : inflight[x] > now
    /\ now' = now + 1
    /\ UNCHANGED <<dbVars, queueVars, workerVars, reclaimerVars, envVars,
                   historyVars, clientVars, callVars,
                   processVars, intakeVars>>

ReclaimerStep ==
    \/ ReclaimerRequeue
    \/ ReclaimerMarkStatus
    \/ ReclaimerIncrementRetry

\* every attempt ends by the death of its worker after AcquirePending
CrashInit == InitWith(0, "up")
CrashNext ==
    \/ \E i \in Ids : Submit(i)
    \/ LeaseTick
    \/ \E w \in Workers : WorkerReserve(w)
    \/ \E w \in Workers : WorkerAcquire(w)
    \/ \E w \in Workers : WorkerCrash(w)
    \/ \E w \in Workers : WorkerAck(w)
    \/ ReclaimerStep
CrashSpec == CrashInit /\ [][CrashNext]_vars

\* a worker may die after AcquirePending; the workers that live judge
RecoveryInit == InitWith(0, "up")
RecoveryNext ==
    \/ CrashNext
    \/ \E w \in Workers : WorkerJudge(w)
RecoverySpec == RecoveryInit /\ [][RecoveryNext]_vars

\* ------------------------------------------------------ duplicate delivery
\* the number of queue entries and deliveries of an id that are under way
Copies(i) ==
    Cardinality({k \in 1..Len(pending) : pending[k] = i})
        + Cardinality({w \in Workers : job[w] = i})

\* a second Enqueue of an id that is already known: LPUSH does not deduplicate
DuplicateEnqueue(i) ==
    /\ status[i] # "none"
    /\ Copies(i) < MaxCopies
    /\ pending' = Enqueue(pending, i)
    /\ UNCHANGED <<dbVars, inflight, now, workerVars, reclaimerVars, envVars,
                   historyVars, clientVars, callVars,
                   processVars, intakeVars>>

\* duplicate queue entries of a submission that is judged without a system
\* error, a failing call or a lease running out
DupInit == InitWith(0, "up")
DupNext ==
    \/ \E i \in Ids : Submit(i)
    \/ \E i \in Ids : DuplicateEnqueue(i)
    \/ \E w \in Workers : WorkerReserve(w)
    \/ \E w \in Workers : WorkerAcquire(w)
    \/ \E w \in Workers : WorkerJudge(w)
    \/ \E w \in Workers : WorkerAck(w)
DupSpec == DupInit /\ [][DupNext]_vars

\* ------------------------------------------- the result Process persists
\* mapVerdict: the verdict of one run from the sandbox's response (status
\* "nil": no response)
RunStatuses ==
    {"Accepted", "Time Limit Exceeded", "Memory Limit Exceeded",
     "Output Limit Exceeded", "Runtime Error", "Internal Error"}

mapVerdictBadExit(res) ==
    IF res.status = "nil" THEN "RE"
    ELSE CASE res.status = "Accepted" -> "AC"
           [] res.status = "Time Limit Exceeded" -> "TLE"
           [] res.status = "Memory Limit Exceeded" -> "MLE"
           [] res.status = "Output Limit Exceeded" -> "OLE"
           [] res.status = "Runtime Error" -> "RE"
           [] OTHER -> "RE"

mapVerdict(res) ==
    IF res.status = "nil" THEN "RE"
    ELSE CASE res.status = "Accepted" -> IF res.exit = 0 THEN "AC" ELSE "RE"
           [] res.status = "Time Limit Exceeded" -> "TLE"
           [] res.status = "Memory Limit Exceeded" -> "MLE"
           [] res.status = "Output Limit Exceeded" -> "OLE"
           [] res.status = "Runtime Error" -> "RE"
           [] OTHER -> "RE"

\* one pass of the loop over the test cases: a run is its response, whether
\* the checker found the output equal to the expected one, and whether
\* RunWithArtifact returned an error
CaseVerdict(run) ==
    IF mapVerdict(run.res) = "AC" /\ ~run.equal THEN "WA"
    ELSE mapVerdict(run.res)

\* if runErr != nil { return "", runErr }
RunFailedBadIgnored(run) == FALSE
RunFailed(run) == run.err

\* a *int32 that is nil
Null == 0 - 1

\* int32(runRes.Time / 1_000_000) and int32(runRes.Memory / 1024)
NsPerMs == 1000000
BytesPerKB == 1024
ToMS(ns) == ns \div NsPerMs
ToKB(bytes) == bytes \div BytesPerKB

\* the detail of test case number k: time and memory only when the response
\* reports them (> 0)
Detail(k, v, res) ==
    [testcase |-> k, status |-> v,
     timeMS |-> IF res.status # "nil" /\ res.time > 0 THEN ToMS(res.time) ELSE Null,
     memoryKB |-> IF res.status # "nil" /\ res.memory > 0 THEN ToKB(res.memory) ELSE Null]

\* if finalTimeMS == nil || t > *finalTimeMS { finalTimeMS = &t }
RunningMax(cur, t) ==
    IF t = Null THEN cur
    ELSE IF cur = Null \/ t > cur THEN t ELSE cur

\* Process returned ("", err): SaveResult was not called
ProcessError(n) ==
    [err |-> TRUE, saved |-> FALSE, verdict |-> "", finalStatus |-> "",
     details |-> <<>>, runs |-> n, timeMS |-> Null, memoryKB |-> Null,
     removed |-> FALSE]

\* Process returned (verdict, nil) after SaveResult(result, finalStatus)
Persisted(v, fs, details, n, ft, fm) ==
    [err |-> FALSE, saved |-> TRUE, verdict |-> v, finalStatus |-> fs,
     details |-> details, runs |-> n, timeMS |-> ft, memoryKB |-> fm,
     removed |-> FALSE]

\* _ = p.judge.RemoveFiles(ctx, artifactID) after the SaveResult of the run phase
Cleaned(r) == [r EXCEPT !.removed = TRUE]

\* the loop from test case k on: a run error ends Process without a result;
\* the first verdict that is not AC becomes the final verdict and ends the loop
RECURSIVE RunLoopBadLastWins(_, _, _, _, _)
RunLoopBadLastWins(tcs, k, details, ft, fm) ==
    IF k > Len(tcs)
    THEN Cleaned(Persisted(Last(details).status,
                           IF Last(details).status = "AC" THEN "succeeded" ELSE "failed",
                           details, Len(tcs), ft, fm))
    ELSE IF RunFailed(tcs[k]) THEN ProcessError(k)
    ELSE LET d == Detail(k, CaseVerdict(tcs[k]), tcs[k].res)
         IN  RunLoopBadLastWins(tcs, k + 1, Append(details, d),
                                RunningMax(ft, d.timeMS), RunningMax(fm, d.memoryKB))

RECURSIVE RunLoopBadNoBreak(_, _, _, _, _)
RunLoopBadNoBreak(tcs, k, details, ft, fm) ==
    IF k > Len(tcs)
    THEN Cleaned(Persisted("AC", "succeeded", details, Len(tcs), ft, fm))
    ELSE IF RunFailed(tcs[k]) THEN ProcessError(k)
    ELSE LET v == CaseVerdict(tcs[k])
             d == Detail(k, v, tcs[k].res)
             rest == RunLoopBadNoBreak(tcs, k + 1, Append(details, d),
                                       RunningMax(ft, d.timeMS),
                                       RunningMax(fm, d.memoryKB))
         IN  IF v # "AC" /\ ~rest.err
             THEN [rest EXCEPT !.verdict = v, !.finalStatus = "failed"]
             ELSE rest

RECURSIVE RunLoop(_, _, _, _, _)
RunLoop(tcs, k, details, ft, fm) ==
    IF k > Len(tcs)
    THEN Cleaned(Persisted("AC", "succeeded", details, Len(tcs), ft, fm))
    ELSE IF RunFailed(tcs[k]) THEN ProcessError(k)
    ELSE LET v == CaseVerdict(tcs[k])
             d == Detail(k, v, tcs[k].res)
             ft2 == RunningMax(ft, d.timeMS)
             fm2 == RunningMax(fm, d.memoryKB)
         IN  IF v # "AC"
             THEN Cleaned(Persisted(v, "failed", Append(details, d), k, ft2, fm2))
             ELSE RunLoop(tcs, k + 1, Append(details, d), ft2, fm2)

\* the SubmissionResult of the compile-error path, and of the poison-pill
\* branch of the worker loop: no details (the compile response's own time and
\* memory are left out)
CompileErrorResultBadStatus == Persisted("CE", "succeeded", <<>>, 0, Null, Null)
CompileErrorResult == Persisted("CE", "failed", <<>>, 0, Null, Null)
SystemErrorResult == Persisted("SE", "failed", <<>>, 0, Null, Null)

\* what one attempt hands to SaveResult.  in.source: the source file could be
\* read; in.detail: FindDetail succeeded (when it fails the default limits and
\* checker are used); in.compile: "ok", "fail" (status not Accepted or exit
\* code not 0) or "err" (transport error); in.tcs: the runs of the test cases
\* ListTestcases returns (<<>>: none, or the listing failed)
ProcessResult(in) ==
    IF in.path = "poison" THEN SystemErrorResult
    ELSE IF ~in.source THEN ProcessError(0)
    ELSE IF in.compile = "err" THEN ProcessError(0)
    ELSE IF in.compile = "fail" THEN CompileErrorResult
    ELSE IF in.tcs = <<>> THEN ProcessError(0)
    ELSE RunLoop(in.tcs, 1, <<>>, Null, Null)

Seqs(S) == UNION {[1..n -> S] : n \in 0..MaxCases}

\* every response status, without resource figures
JudgeRuns ==
    [res : [status : RunStatuses \cup {"nil"}, exit : {0, 1}, time : {0}, memory : {0}],
     equal : BOOLEAN, err : BOOLEAN]

JudgeInit ==
    /\ SystemInit(0, "up")
    /\ input \in [path : {"process"}, source : BOOLEAN, detail : BOOLEAN,
                  compile : {"ok", "fail", "err"}, tcs : Seqs(JudgeRuns)]
                 \cup [path : {"poison"}, source : {TRUE}, detail : {TRUE},
                       compile : {"err"}, tcs : {<<>>}]
    /\ output = <<>>

\* runs that pass or fail with resource figures of up to MaxCost ms and KB
ResourceRuns ==
    [res : [status : {"Accepted", "Time Limit Exceeded"}, exit : {0},
            time : {c * NsPerMs : c \in 0..MaxCost},
            memory : {c * BytesPerKB : c \in 0..MaxCost}],
     equal : BOOLEAN, err : {FALSE}]

ResourceInit ==
    /\ SystemInit(0, "up")
    /\ input \in [path : {"process"}, source : {TRUE}, detail : {TRUE},
                  compile : {"ok"}, tcs : Seqs(ResourceRuns)]
    /\ output = <<>>

CallProcess ==
    /\ output = <<>>
    /\ output' = <<ProcessResult(input)>>
    /\ UNCHANGED <<dbVars, queueVars, now, workerVars, reclaimerVars, envVars,
                   historyVars, clientVars, input,
                   processVars, intakeVars>>

JudgeSpec == JudgeInit /\ [][CallProcess]_vars
ResourceSpec == ResourceInit /\ [][CallProcess]_vars

\* ------------------------------------------------------ output checkers
\* a string is the sequence of its characters
WhiteSpace == {" ", "\n", "\r", "\t"}
TrailingCutset == {"\r", "\n", " "}
Digits == {"0", "1", "2"}

\* strings.TrimRight(s, cutset)
RECURSIVE TrimRightBadBothEnds(_, _)
TrimRightBadBothEnds(s, cutset) ==
    IF s # <<>> /\ Last(s) \in cutset THEN TrimRightBadBothEnds(Front(s), cutset)
    ELSE IF s # <<>> /\ Head(s) \in cutset THEN TrimRightBadBothEnds(Tail(s), cutset)
    ELSE s

RECURSIVE TrimRight(_, _)
TrimRight(s, cutset) ==
    IF s # <<>> /\ Last(s) \in cutset THEN TrimRight(Front(s), cutset) ELSE s

RECURSIVE TrimLeft(_, _)
TrimLeft(s, cutset) ==
    IF s # <<>> /\ Head(s) \in cutset THEN TrimLeft(Tail(s), cutset) ELSE s

\* strings.TrimSpace and strings.ToLower
TrimSpace(s) == TrimLeft(TrimRight(s, WhiteSpace), WhiteSpace)

LowerOf(c) ==
    CASE c = "A" -> "a" [] c = "C" -> "c" [] c = "E" -> "e" [] c = "N" -> "n"
      [] c = "P" -> "p" [] c = "S" -> "s" [] c = "T" -> "t" [] c = "X" -> "x"
      [] OTHER -> c
ToLower(s) == [k \in 1..Len(s) |-> LowerOf(s[k])]

\* strings.Fields: the maximal runs of characters that are not white space
RECURSIVE FieldsFrom(_, _, _)
FieldsFrom(s, cur, acc) ==
    IF s = <<>> THEN (IF cur = <<>> THEN acc ELSE Append(acc, cur))
    ELSE IF Head(s) \in WhiteSpace
         THEN FieldsFrom(Tail(s), <<>>, IF cur = <<>> THEN acc ELSE Append(acc, cur))
         ELSE FieldsFrom(Tail(s), Append(cur, Head(s)), acc)
Fields(s) == FieldsFrom(s, <<>>, <<>>)

\* strconv.ParseFloat(tok, 64) on tokens of digits and letters: a decimal
\* integer is its value, "nan" in any case is NaN, anything else an error
DigitVal(c) == CASE c = "0" -> 0 [] c = "1" -> 1 [] c = "2" -> 2
RECURSIVE Decimal(_)
Decimal(tok) ==
    IF tok = <<>> THEN 0 ELSE 10 * Decimal(Front(tok)) + DigitVal(Last(tok))

ParseFloat(tok) ==
    IF tok # <<>> /\ \A k \in 1..Len(tok) : tok[k] \in Digits
    THEN [err |-> FALSE, nan |-> FALSE, val |-> Decimal(tok)]
    ELSE IF ToLower(tok) = <<"n", "a", "n">>
    THEN [err |-> FALSE, nan |-> TRUE, val |-> 0]
    ELSE [err |-> TRUE, nan |-> FALSE, val |-> 0]

\* float64 arithmetic on these values: NaN propagates through - and math.Abs,
\* and every comparison with NaN is false
FloatSub(x, y) == [nan |-> x.nan \/ y.nan, val |-> x.val - y.val]
FloatAbs(d) == [nan |-> d.nan, val |-> IF d.val < 0 THEN 0 - d.val ELSE d.val]
FloatGreater(d, e) == ~d.nan /\ d.val > e

\* the eps branch: the loop returns false at the first pair that fails
EpsLoop(aa, bb, eps) ==
    \A k \in 1..Len(aa) :
        LET x == ParseFloat(aa[k])
            y == ParseFloat(bb[k])
        IN  /\ ~(x.err \/ y.err)
            /\ ~FloatGreater(FloatAbs(FloatSub(x, y)), eps)

outputsEqualWithChecker(actual, expected, checkerType, eps) ==
    IF ToLower(TrimSpace(checkerType)) = <<"e", "p", "s">>
    THEN LET aa == Fields(actual)
             bb == Fields(expected)
         IN  IF Len(aa) # Len(bb) THEN FALSE ELSE EpsLoop(aa, bb, eps)
    ELSE TrimRight(actual, TrailingCutset) = TrimRight(expected, TrailingCutset)

Strs(A) == UNION {[1..n -> A] : n \in 0..MaxLen}

\* the exact checker: outputs of letters, blanks, line ends and tabs under
\* the checker types "exact", "", "abs" and "Exact "
ExactAlphabet == {"a", " ", "\n", "\r", "\t"}
ExactTypes ==
    {<<"e", "x", "a", "c", "t">>, <<>>, <<"a", "b", "s">>,
     <<"E", "x", "a", "c", "t", " ">>}

ExactInit ==
    /\ SystemInit(0, "up")
    /\ input \in [actual : Strs(ExactAlphabet), expected : Strs(ExactAlphabet),
                  checkerType : ExactTypes, eps : {0}]
    /\ output = <<>>

\* the eps checker: outputs of digits, letters and blanks under the checker
\* types "eps" and " EPS"
EpsAlphabet == {"1", "2", "n", "a", " "}
EpsTypes == {<<"e", "p", "s">>, <<" ", "E", "P", "S">>}

EpsInit ==
    /\ SystemInit(0, "up")
    /\ input \in [actual : Strs(EpsAlphabet), expected : Strs(EpsAlphabet),
                  checkerType : EpsTypes, eps : 0..MaxEps]
    /\ output = <<>>

CallChecker ==
    /\ output = <<>>
    /\ output' = <<outputsEqualWithChecker(input.actual, input.expected,
                                           input.checkerType, input.eps)>>
    /\ UNCHANGED <<dbVars, queueVars, now, workerVars, reclaimerVars, envVars,
                   historyVars, clientVars, input,
                   processVars, intakeVars>>

ExactSpec == ExactInit /\ [][CallChecker]_vars
EpsSpec == EpsInit /\ [][CallChecker]_vars

\* ------------------------------------------------- the broker on its own
\* a client of RedisQueue calling its four operations in any order; every
\* Enqueue carries a fresh payload, as intake enqueues fresh submission ids
QInit == InitWith(0, "up")

QEnqueue ==
    /\ qnext <= MaxJob
    /\ pending' = Enqueue(pending, qnext)
    /\ qnext' = qnext + 1
    /\ UNCHANGED <<dbVars, inflight, now, workerVars, reclaimerVars, envVars,
                   historyVars, qlog, callVars,
                   processVars, intakeVars>>

QReserve ==
    /\ LET r == Reserve(pending, inflight, now + DefaultVisibilityTimeout)
       IN  /\ pending' = r.pending
           /\ inflight' = r.inflight
           /\ qlog' = IF r.v = Nil THEN qlog ELSE Append(qlog, r.v)
    /\ UNCHANGED <<dbVars, now, workerVars, reclaimerVars, envVars,
                   historyVars, qnext, callVars,
                   processVars, intakeVars>>

QAck(v) ==
    /\ inflight' = Ack(inflight, v).inflight
    /\ UNCHANGED <<dbVars, pending, now, workerVars, reclaimerVars, envVars,
                   historyVars, clientVars, callVars,
                   processVars, intakeVars>>

QRequeueExpired ==
    /\ LET r == RequeueExpired(inflight, pending, now)
       IN  /\ inflight' = r.inflight
           /\ pending' = r.pending
    /\ UNCHANGED <<dbVars, now, workerVars, reclaimerVars, envVars,
                   historyVars, clientVars, callVars,
                   processVars, intakeVars>>

QNext ==
    \/ QEnqueue
    \/ QReserve
    \/ \E v \in Jobs : QAck(v)
    \/ QRequeueExpired
    \/ Tick

QSpec == QInit /\ [][QNext]_vars

\* ------------------------------------------- SaveResult as a transaction
\* the rows of one submission: submissions.status ("none": no such row),
\* submission_results.verdict ("none": no result row) and the rows of
\* submission_result_details in the order of their id
DetailRows == [testcase : 1..MaxCases, status : {"AC", "WA"}]

SubmissionRows ==
    {[status |-> "none", verdict |-> "none", details |-> <<>>]}
      \cup [status : {"running", "failed"}, verdict : {"none", "WA"},
            details : Seqs(DetailRows)]

\* the statements of SaveResult in their order: 1 BeginTx, 2 UPDATE
\* submissions, 3 the upsert of the result row, 4 DELETE of the detail rows,
\* 4 + k the INSERT of the k-th detail, 5 + n Commit
StatementCount(result) == Len(result.details) + 5

\* the rows as the transaction sees them after its first k statements
Working(db, result, finalStatus, k) ==
    LET s2 == [db EXCEPT !.status = finalStatus]
        s3 == [s2 EXCEPT !.verdict = result.verdict]
    IN  IF k < 2 THEN db
        ELSE IF k = 2 THEN s2
        ELSE IF k = 3 THEN s3
        ELSE [s3 EXCEPT !.details =
                 SubSeq(result.details, 1,
                        IF k - 4 > Len(result.details)
                        THEN Len(result.details) ELSE k - 4)]

\* a transaction that keeps what it wrote before the statement that failed
RollbackBadKeep(db, working) == working

\* defer tx.Rollback(ctx): the rows are those before BeginTx
Rollback(db, working) == db

\* PgSubmissionRepository.SaveResult with all its statements; failAt is the
\* statement the database fails (0: none); an UPDATE that affects no row is
\* the error "submission not found"
SaveResultTx(db, result, finalStatus, failAt) ==
    LET n == StatementCount(result)
        notFound == db.status = "none" /\ (failAt = 0 \/ failAt > 2)
        stop == IF notFound THEN 2 ELSE failAt
    IN  IF stop = 0
        THEN [err |-> FALSE, db |-> Working(db, result, finalStatus, n)]
        ELSE [err |-> TRUE,
              db |-> Rollback(db, Working(db, result, finalStatus,
                                          IF notFound THEN 1 ELSE stop - 1))]

SaveInit ==
    /\ SystemInit(0, "up")
    /\ input \in {i \in [db : SubmissionRows, verdict : {"AC", "WA"},
                         details : Seqs(DetailRows), failAt : 0..(MaxCases + 5)] :
                     i.failAt <= StatementCount(i)}
    /\ output = <<>>

CallSaveResult ==
    /\ output = <<>>
    /\ output' = <<SaveResultTx(input.db, input, FinalStatus(input.verdict),
                                input.failAt)>>
    /\ UNCHANGED <<dbVars, queueVars, now, workerVars, reclaimerVars, envVars,
                   historyVars, clientVars, input,
                   processVars, intakeVars>>

SaveSpec == SaveInit /\ [][CallSaveResult]_vars

\* ------------------------------------------------------- malformed jobs
\* a job string that is not the decimal form of a submission id
Malformed == MaxJob + 1

\* some client of the broker pushes the string onto the pending list
EnqueueMalformed ==
    /\ Malformed \notin Range(pending)
    /\ Malformed \notin DOMAIN inflight
    /\ \A w \in Workers : job[w] # Malformed
    /\ pending' = Enqueue(pending, Malformed)
    /\ UNCHANGED <<dbVars, inflight, now, workerVars, reclaimerVars, envVars,
                   historyVars, clientVars, callVars, processVars, intakeVars>>

\* a parse branch that goes on to the next Reserve without the Ack
AfterParseErrorBadContinue == "reserve"

\* parseErr != nil: log, _ = queue.Ack(ctx, processingKey, job); continue
AfterParseError == "ack"

\* processor.Process: strconv.ParseInt fails and Process returns its error;
\* the worker parses the job again and takes the parse branch
WorkerMalformed(w) ==
    /\ pc[w] = "acquire"
    /\ job[w] \notin Ids
    /\ pc' = [pc EXCEPT ![w] = AfterParseError]
    /\ UNCHANGED <<dbVars, queueVars, now, job, owns, ret, reclaimerVars,
                   envVars, historyVars, clientVars, callVars, processVars,
                   intakeVars>>

\* the worker pool with a malformed string among the jobs, while every
\* database and broker call succeeds and no lease runs out
MalformedInit == InitWith(0, "flaky")
MalformedNext ==
    \/ \E i \in Ids : Submit(i)
    \/ EnqueueMalformed
    \/ WorkerStep
    \/ \E w \in Workers : WorkerMalformed(w)
MalformedSpec == MalformedInit /\ [][MalformedNext]_vars

\* --------------------------------------------------------- the heartbeat
\* the job strings Reserve may hand to a worker
JobStrings == Jobs \cup {Malformed}

\* a JobFinished that always reports idle
JobFinishedBadIdle(h, j) ==
    [status |-> "idle", running |-> h.running \ {j},
     running_count |-> Cardinality(h.running \ {j})]

\* HeartbeatState.JobStarted: Status = "busy"; running[job] = time.Now();
\* updateRunningFieldsLocked sets RunningCount = len(running)
JobStarted(h, j) ==
    [status |-> "busy", running |-> h.running \cup {j},
     running_count |-> Cardinality(h.running \cup {j})]

\* HeartbeatState.JobFinished: delete(running, job); idle when the map is
\* empty and busy otherwise; updateRunningFieldsLocked
JobFinished(h, j) ==
    LET r == h.running \ {j}
    IN  [status |-> IF Cardinality(r) = 0 THEN "idle" ELSE "busy",
         running |-> r, running_count |-> Cardinality(r)]

\* Reserve returned job j to worker w: state.JobStarted(job), then Process
HbReserved(w, j) ==
    /\ pc[w] = "reserve"
    /\ pc' = [pc EXCEPT ![w] = "process"]
    /\ job' = [job EXCEPT ![w] = j]
    /\ hb' = JobStarted(hb, j)
    /\ UNCHANGED <<dbVars, queueVars, now, owns, ret, reclaimerVars, envVars,
                   historyVars, clientVars, callVars, hbpc, cancelled,
                   intakeVars>>

\* Process returned a parse error or ErrSubmissionNotPending: Ack and
\* continue, which skips state.JobFinished at the end of the loop body
HbContinue(w) ==
    /\ pc[w] = "process"
    /\ pc' = [pc EXCEPT ![w] = "reserve"]
    /\ job' = [job EXCEPT ![w] = Nil]
    /\ UNCHANGED <<dbVars, queueVars, now, owns, ret, reclaimerVars, envVars,
                   historyVars, clientVars, callVars, processVars, intakeVars>>

\* every other way through the loop body: Ack, state.JobFinished(job, procErr)
HbFinished(w) ==
    /\ pc[w] = "process"
    /\ job[w] \in Jobs
    /\ pc' = [pc EXCEPT ![w] = "reserve"]
    /\ job' = [job EXCEPT ![w] = Nil]
    /\ hb' = JobFinished(hb, job[w])
    /\ UNCHANGED <<dbVars, queueVars, now, owns, ret, reclaimerVars, envVars,
                   historyVars, clientVars, callVars, hbpc, cancelled,
                   intakeVars>>

\* the worker goroutines as the heartbeat state sees them
HbInit == InitWith(0, "up")
HbNext ==
    \/ \E w \in Workers, j \in JobStrings : HbReserved(w, j)
    \/ \E w \in Workers : HbContinue(w)
    \/ \E w \in Workers : HbFinished(w)
HbSpec == HbInit /\ [][HbNext]_vars

\* ------------------------------------------------- intake, step by step
\* a call bound to the request context fails once that context is cancelled
\* (the client went away); any call may also fail on its own
CallFails == cancelled \/ CanFail
Failing == IF cancelled THEN UNCHANGED faultsLeft ELSE Fail

\* the client of the intake request disconnects while the handler runs
RequestCancel ==
    /\ ~cancelled
    /\ \E i \in Ids : ipc[i] \notin {"idle", "done", "failed"}
    /\ cancelled' = TRUE
    /\ UNCHANGED <<dbVars, queueVars, now, workerVars, reclaimerVars, envVars,
                   historyVars, clientVars, callVars, hb, hbpc, intakeVars>>

\* subRepo.Create(ctx, userID, problemID, lang, ""): status pending, empty
\* source_path; on an error the handler returns
IntakeCreate(i) ==
    /\ ipc[i] = "idle"
    /\ status[i] = "none"
    /\ \/ /\ ~cancelled
          /\ status' = [status EXCEPT ![i] = "pending"]
          /\ ipc' = [ipc EXCEPT ![i] = "write"]
          /\ UNCHANGED faultsLeft
       \/ /\ CallFails
          /\ Failing
          /\ ipc' = [ipc EXCEPT ![i] = "failed"]
          /\ UNCHANGED status
    /\ UNCHANGED <<retry_count, verdict, queueVars, now, workerVars,
                   reclaimerVars, sandbox, historyVars, clientVars, callVars,
                   processVars, source_path>>

\* ensureDir(dir) and os.WriteFile(srcPath, source): not bound to the context
IntakeWrite(i) ==
    /\ ipc[i] = "write"
    /\ \/ /\ ipc' = [ipc EXCEPT ![i] = "update"]
          /\ UNCHANGED faultsLeft
       \/ /\ CanFail
          /\ Fail
          /\ ipc' = [ipc EXCEPT ![i] = "delete"]
    /\ UNCHANGED <<dbVars, queueVars, now, workerVars, reclaimerVars, sandbox,
                   historyVars, clientVars, callVars, processVars, source_path>>

\* db.Exec(ctx, UPDATE submissions SET source_path=$1 WHERE id=$2)
IntakeUpdate(i) ==
    /\ ipc[i] = "update"
    /\ \/ /\ ~cancelled
          /\ source_path' = [source_path EXCEPT ![i] = TRUE]
          /\ ipc' = [ipc EXCEPT ![i] = "enqueue"]
          /\ UNCHANGED faultsLeft
       \/ /\ CallFails
          /\ Failing
          /\ ipc' = [ipc EXCEPT ![i] = "delete"]
          /\ UNCHANGED source_path
    /\ UNCHANGED <<dbVars, queueVars, now, workerVars, reclaimerVars, sandbox,
                   historyVars, clientVars, callVars, processVars>>

\* queue.Enqueue(ctx, PendingQueueKey, id)
IntakeEnqueue(i) ==
    /\ ipc[i] = "enqueue"
    /\ \/ /\ ~cancelled
          /\ pending' = Enqueue(pending, i)
          /\ ipc' = [ipc EXCEPT ![i] = "done"]
          /\ UNCHANGED faultsLeft
       \/ /\ CallFails
          /\ Failing
          /\ ipc' = [ipc EXCEPT ![i] = "delete"]
          /\ UNCHANGED pending
    /\ UNCHANGED <<dbVars, inflight, now, workerVars, reclaimerVars, sandbox,
                   historyVars, clientVars, callVars, processVars, source_path>>

\* PgSubmissionRepository.Delete: DELETE FROM submissions WHERE id=$1
Delete(st, i) == [st EXCEPT ![i] = "none"]

\* the error path: _ = subRepo.Delete(ctx, subID); _ = os.RemoveAll(dir);
\* return the error.  The error of Delete is discarded
IntakeDelete(i) ==
    /\ ipc[i] = "delete"
    /\ ipc' = [ipc EXCEPT ![i] = "failed"]
    /\ \/ /\ ~cancelled
          /\ status' = Delete(status, i)
          /\ source_path' = [source_path EXCEPT
                               ![i] = IF status'[i] = "none" THEN FALSE ELSE @]
          /\ UNCHANGED faultsLeft
       \/ /\ CallFails
          /\ Failing
          /\ UNCHANGED <<status, source_path>>
    /\ UNCHANGED <<retry_count, verdict, queueVars, now, workerVars,
                   reclaimerVars, sandbox, historyVars, clientVars, callVars,
                   processVars>>

\* intake by createSubmissionWithSource, and the workers that take what it
\* enqueued
IntakeInit == InitWith(MaxFaults, "flaky")
IntakeNext ==
    \/ RequestCancel
    \/ \E i \in Ids : IntakeCreate(i)
    \/ \E i \in Ids : IntakeWrite(i)
    \/ \E i \in Ids : IntakeUpdate(i)
    \/ \E i \in Ids : IntakeEnqueue(i)
    \/ \E i \in Ids : IntakeDelete(i)
    \/ WorkerStep
IntakeSpec == IntakeInit /\ [][IntakeNext]_vars

\* ----------------------------------------------------------- cancellation
\* SIGINT or SIGTERM: the context of signal.NotifyContext is cancelled
Cancel ==
    /\ ~cancelled
    /\ cancelled' = TRUE
    /\ UNCHANGED <<dbVars, queueVars, now, workerVars, reclaimerVars, envVars,
                   historyVars, clientVars, callVars, hb, hbpc, intakeVars>>

\* an Ack that removes the entry although its context is cancelled
CancelledAckBadRemoves(infl, v) == Ack(infl, v).inflight

\* queue.Ack(ctx, ...) with a cancelled context: the call fails, the error is
\* logged, the entry stays
CancelledAck(infl, v) == infl

\* a reserve loop that goes round again on context.Canceled
AfterReserveCancelledBadLoop == "reserve"

\* Reserve returns context.Canceled (or the wait on redis.Nil sees ctx.Done()):
\* the goroutine returns
AfterReserveCancelled == "done"

\* where a worker goes from position p when the call it makes there fails on
\* the cancelled context: Reserve ends the goroutine; AcquirePending and the
\* calls of Process return an error, or Process only logs the failed
\* SaveResult and returns its verdict; IncrementRetry fails with newRetry = 0,
\* which is <= maxRetries; MarkStatus, Enqueue, SaveResult and Ack fail and
\* their errors are discarded or logged
AfterCancelled(p) ==
    IF p = "reserve" THEN {AfterReserveCancelled}
    ELSE IF p = "acquire" THEN {"incRetry"}
    ELSE IF p = "judge" THEN {"incRetry", "ack"}
    ELSE IF p = "incRetry" THEN {"markPending"}
    ELSE IF p = "markPending" THEN {"enqueue"}
    ELSE IF p = "enqueue" THEN {"ack"}
    ELSE IF p = "saveSE" THEN {"ack"}
    ELSE IF p = "ack" THEN {"reserve"}
    ELSE {}

\* one step of worker w after the cancellation
WorkerCancelled(w) ==
    /\ cancelled
    /\ \E q \in AfterCancelled(pc[w]) :
         /\ pc' = [pc EXCEPT ![w] = q]
         /\ ret' = [ret EXCEPT ![w] =
                      IF pc[w] = "judge" /\ q = "ack" THEN "AC"
                      ELSE IF pc[w] = "ack" THEN "" ELSE @]
    /\ job' = [job EXCEPT ![w] = IF pc[w] = "ack" THEN Nil ELSE @]
    /\ owns' = [owns EXCEPT ![w] = IF pc[w] = "ack" THEN FALSE ELSE @]
    /\ inflight' = IF pc[w] = "ack" THEN CancelledAck(inflight, job[w])
                   ELSE inflight
    /\ UNCHANGED <<dbVars, pending, now, reclaimerVars, envVars, historyVars,
                   clientVars, callVars, processVars, intakeVars>>

\* the reclaimer after the cancellation: case <-ctx.Done(): return; inside an
\* iteration MarkStatus and IncrementRetry fail and their errors are discarded
ReclaimerCancelled ==
    /\ cancelled
    /\ \/ /\ rpc = "wait"
          /\ rpc' = "done"
          /\ UNCHANGED rjobs
       \/ /\ rpc = "mark"
          /\ rpc' = "inc"
          /\ UNCHANGED rjobs
       \/ /\ rpc = "inc"
          /\ rjobs' = Tail(rjobs)
          /\ rpc' = IF Tail(rjobs) = <<>> THEN "wait" ELSE "mark"
    /\ UNCHANGED <<dbVars, queueVars, now, workerVars, envVars, historyVars,
                   clientVars, callVars, processVars, intakeVars>>

\* HeartbeatState.Start: case <-ctx.Done(): return
HeartbeatCancelled ==
    /\ cancelled
    /\ hbpc = "run"
    /\ hbpc' = "done"
    /\ UNCHANGED <<dbVars, queueVars, now, workerVars, reclaimerVars, envVars,
                   historyVars, clientVars, callVars, hb, cancelled, intakeVars>>

AllDone ==
    /\ \A w \in Workers : pc[w] = "done"
    /\ rpc = "done"
    /\ hbpc = "done"

\* the worker process until and after its cancellation, while every call made
\* with a live context succeeds
CancelInit == InitWith(0, "flaky")
CancelNext ==
    \/ ~cancelled /\ \E i \in Ids : Submit(i)
    \/ ~cancelled /\ Tick
    \/ ~cancelled /\ WorkerStep
    \/ ~cancelled /\ ReclaimerStep
    \/ Cancel
    \/ \E w \in Workers : WorkerCancelled(w)
    \/ ReclaimerCancelled
    \/ HeartbeatCancelled
CancelSpec == CancelInit /\ [][CancelNext]_vars

\* the Go scheduler runs every goroutine that can take a step
CancelFairness ==
    /\ \A w \in Workers : WF_vars(WorkerCancelled(w))
    /\ WF_vars(ReclaimerCancelled)
    /\ WF_vars(HeartbeatCancelled)
CancelLiveSpec == CancelSpec /\ CancelFairness

\* ===================================================================
\* Properties
\* ===================================================================
InPending(i) == i \in Range(pending)
InFlight(i) == i \in DOMAIN inflight
Held(i) == \E w \in Workers : job[w] = i

\* nothing refers to the id any more: no queue entry, no worker handling it,
\* and the reclaimer has no status reset of it left to do
Lost(i) == ~InPending(i) /\ ~InFlight(i) /\ ~Held(i) /\ i \notin Range(rjobs)

\* C1 -- for every submission id at most one worker is between a successful
\* AcquirePending(id) and the end of its handling of that job
OneOwner ==
    \A i \in Ids : Cardinality({w \in Workers : owns[w] /\ job[w] = i}) <= 1

\* C2 as claimed -- over the lifetime of a submission at most one
\* AcquirePending(id) returns success
AtMostOneAcquire == \A i \in Ids : acquired[i] <= 1

\* C2 as amended -- at most one AcquirePending(id) returns success per pending
\* period: after a success no further call succeeds until MarkStatus(id,
\* pending) of the retry path or of the reclaimer has reset the row
OneAcquirePerPendingPeriod == \A i \in Ids : sinceReset[i] <= 1

\* a second attempt has acquired the row after a reset
SecondAcquireAfterReset ==
    \E i \in Ids : acquired[i] >= 2 /\ sinceReset[i] = 1 /\ status[i] = "running"

\* C3 -- no submission is pending or running while its id is in neither the
\* pending list nor the in-flight set and no worker is handling it
NoLostJob ==
    \A i \in Ids : status[i] \in {"pending", "running"} => ~Lost(i)

\* C4 -- no submission stays running with no worker handling it and no
\* in-flight or pending queue entry
NoOrphanRunning ==
    \A i \in Ids : status[i] = "running" => ~Lost(i)

\* C5 -- Reserve is one atomic step: it pops the job at the reserve end of the
\* pending list and puts it into the in-flight set with score now +
\* visibility, so that the job it returns is never absent from both; on an
\* empty list it returns nothing and changes neither structure
ReserveIsAtomic ==
    [][ /\ pending = <<>> =>
             Reserve(pending, inflight, now + DefaultVisibilityTimeout)
               = [v |-> Nil, pending |-> pending, inflight |-> inflight]
        /\ qlog' # qlog =>
             /\ pending # <<>>
             /\ Last(qlog') = Last(pending)
             /\ pending' = Front(pending)
             /\ DOMAIN inflight' = DOMAIN inflight \cup {Last(pending)}
             /\ inflight'[Last(pending)] = now + DefaultVisibilityTimeout
             /\ \A x \in DOMAIN inflight \ {Last(pending)} :
                    inflight'[x] = inflight[x] ]_vars

\* Reserve has returned a job while another one stayed pending
ReservedOne ==
    /\ qlog # <<>>
    /\ pending # <<>>
    /\ InFlight(Last(qlog))
    /\ inflight[Last(qlog)] = now + DefaultVisibilityTimeout

\* C6 -- FIFO: of two values enqueued one after the other, Reserve returns the
\* earlier one first
FirstPos(v) == CHOOSE k \in 1..Len(qlog) : qlog[k] = v /\ \A j \in 1..(k - 1) : qlog[j] # v

FIFO ==
    \A a, b \in 1..(qnext - 1) :
        (a < b /\ b \in Range(qlog)) =>
            (a \in Range(qlog) /\ FirstPos(a) < FirstPos(b))

\* three values were enqueued and the first two reserved
TwoReserved == qnext > MaxJob /\ Len(qlog) >= 2 /\ qlog[1] # qlog[2]

\* C7 -- head reclaim: the jobs RequeueExpired moves back are returned by
\* Reserve before every job that was pending at the time of the reclaim
HeadReclaim ==
    [][ (Len(pending') > Len(pending) /\ DOMAIN inflight' # DOMAIN inflight) =>
           \A k \in 1..Len(pending') :
               (pending'[k] \in (DOMAIN inflight) \ (DOMAIN inflight'))
                   <=> k > Len(pending) ]_vars

\* C8 -- the in-flight entry of a job a worker holds goes away only by that
\* worker's own Ack or after the lease has run out
LeaseProtected ==
    [][ \A w \in Workers :
          (job[w] # Nil /\ InFlight(job[w]) /\ job[w] \notin DOMAIN inflight') =>
              \/ pc[w] = "ack" /\ pc'[w] = "reserve"
              \/ inflight[job[w]] <= now ]_vars

\* C9 -- Ack is idempotent: a second Ack of the same value changes nothing,
\* an Ack of a value that is not in flight changes nothing, and neither
\* reports an error
AckIdempotent ==
    \A v \in Jobs :
        LET once == Ack(inflight, v)
            twice == Ack(once.inflight, v)
        IN  /\ twice.inflight = once.inflight
            /\ ~once.err /\ ~twice.err
            /\ v \notin DOMAIN once.inflight
            /\ (v \notin DOMAIN inflight => once.inflight = inflight)

\* a reserved value was acked while other values are still in flight
AckedOne ==
    \E v \in Range(qlog) :
        ~InFlight(v) /\ ~InPending(v) /\ Cardinality(DOMAIN inflight) >= 2

NoEndlessRequeue ==
    [][ \A i \in Ids :
          (retry_count[i] > maxRetries /\ verdict[i] # "SE") =>
              ~(rpc = "wait" /\ rpc' = "mark" /\ i \in Range(rjobs')) ]_vars

AcquireLinearizes ==
    [][ /\ \A i \in Ids :
              /\ status[i] = "pending" =>
                    LET first == AcquirePending(status, i)
                        second == AcquirePending(first.status, i)
                    IN  /\ first.res = "ok"
                        /\ first.status = [status EXCEPT ![i] = "running"]
                        /\ second.res = "NotPending"
                        /\ second.status = first.status
              /\ status[i] \notin {"none", "pending"} =>
                    AcquirePending(status, i)
                        = [res |-> "NotPending", status |-> status]
              /\ Cardinality({w \in Workers : owns'[w] /\ job'[w] = i}) <= 1
        /\ \A w \in Workers :
              (pc[w] = "acquire" /\ pc'[w] # "acquire") =>
                  IF status[job[w]] = "pending"
                  THEN /\ owns'[w] /\ pc'[w] = "judge"
                       /\ status' = [status EXCEPT ![job[w]] = "running"]
                  ELSE /\ ~owns'[w] /\ pc'[w] = "ack"
                       /\ status' = status ]_vars

\* two workers have called AcquirePending on the same row; one owns it
BothAcquireCallsReturned ==
    \E w, u \in Workers :
        /\ w # u /\ job[w] = job[u] /\ job[w] # Nil
        /\ owns[w] /\ ~owns[u] /\ pc[u] = "ack"
        /\ status[job[w]] = "running" /\ acquired[job[w]] = 1

\* C14 -- a submission becomes running only by a successful AcquirePending on
\* its id: no MarkStatus of the worker or the reclaimer, no SaveResult and no
\* intake step writes status = running
RunningOnlyByAcquire ==
    [][ \A i \in Ids :
          (status'[i] = "running" /\ status[i] # "running") =>
              \E w \in Workers :
                  /\ pc[w] = "acquire" /\ job[w] = i
                  /\ status[i] = "pending"
                  /\ AcquirePending(status, i).res = "ok"
                  /\ pc'[w] = "judge" /\ owns'[w] ]_vars

\* a row is running again after the retry path or the reclaimer reset it
RunningAgain ==
    \E i \in Ids : \E w \in Workers :
        /\ status[i] = "running" /\ retry_count[i] >= 1
        /\ job[w] = i /\ owns[w] /\ pc[w] = "judge"

Saved == output # <<>> /\ output[1].saved
AllDetailsAC ==
    \A k \in 1..Len(output[1].details) : output[1].details[k].status = "AC"

\* C15 as claimed -- for every result the worker persists (run path,
\* compile-error path, system-error path) the verdict is AC if and only if
\* every recorded detail has status AC
VerdictMonotone == Saved => (output[1].verdict = "AC" <=> AllDetailsAC)

\* C15 as amended -- a result of the run path records at least one detail and
\* has verdict AC if and only if every recorded detail is AC; the results of
\* the compile-error and system-error paths record no detail and have verdict
\* CE and SE
VerdictMonotoneWithDetails ==
    Saved =>
        IF output[1].details = <<>>
        THEN /\ output[1].verdict = (IF input.path = "poison" THEN "SE" ELSE "CE")
             /\ output[1].finalStatus = "failed"
        ELSE /\ input.path = "process" /\ input.compile = "ok"
             /\ output[1].verdict = "AC" <=> AllDetailsAC
             /\ output[1].finalStatus = "succeeded" <=> output[1].verdict = "AC"

\* a run over several test cases ended AC
SeveralCasesAC ==
    Saved /\ Len(output[1].details) = MaxCases /\ output[1].verdict = "AC"

\* C16 -- crash recovery: after a worker died between AcquirePending and Ack
\* and its lease ran out, the submission is re-queued and reset so that a
\* fresh worker completes it: it does not stay pending or running with no
\* queue entry and no worker, and once it is finished by a second attempt
\* and the reclaimer is done its retry_count is at least 1
CrashRecovered ==
    \A i \in Ids :
        /\ (now > 0 /\ status[i] \in {"pending", "running"}) => ~Lost(i)
        /\ (acquired[i] >= 2 /\ status[i] \in {"succeeded", "failed"}
               /\ rpc = "wait")
              => retry_count[i] >= 1

\* the string without its trailing characters from the set
Stripped(s) ==
    LET n == CHOOSE n \in 0..Len(s) :
                 /\ \A k \in (n + 1)..Len(s) : s[k] \in {"\r", "\n", " "}
                 /\ (n = 0 \/ s[n] \notin {"\r", "\n", " "})
    IN  SubSeq(s, 1, n)

\* C17 -- under every checker type other than eps, actual and expected are
\* equal exactly when they are the same string once every trailing '\r',
\* '\n' and ' ' is removed on both sides; leading and interior white space
\* counts
ExactChecker ==
    output # <<>> =>
        (output[1] <=> Stripped(input.actual) = Stripped(input.expected))

\* two outputs that differ only in trailing white space were found equal
ExactIgnoresTrailing ==
    /\ output = <<TRUE>>
    /\ input.actual # input.expected
    /\ Len(input.actual) = MaxLen
    /\ Stripped(input.expected) # <<>>

\* a token is a finite number: a decimal integer here
IsFinite(tok) == tok # <<>> /\ \A k \in 1..Len(tok) : tok[k] \in {"0", "1", "2"}
Distance(a, b) == IF Decimal(a) >= Decimal(b) THEN Decimal(a) - Decimal(b)
                  ELSE Decimal(b) - Decimal(a)

\* C18 -- the eps checker finds actual and expected equal exactly when they
\* have the same number of white-space separated tokens and every pair of
\* tokens is a pair of finite numbers with |a - b| <= eps; a token that is
\* not a number or not finite (NaN, Inf) on either side is a mismatch
EpsChecker ==
    output # <<>> =>
        LET aa == Fields(input.actual)
            bb == Fields(input.expected)
        IN  output[1] <=>
                /\ Len(aa) = Len(bb)
                /\ \A k \in 1..Len(aa) :
                       /\ IsFinite(aa[k]) /\ IsFinite(bb[k])
                       /\ Distance(aa[k], bb[k]) <= input.eps

\* C19 -- retry step: after a processor error other than NotPending with a
\* new retry count of at most maxRetries, the worker has set the submission
\* pending and put its id on the pending list, and has written no result:
\* when the Enqueue call of the step returns, the submission is pending and
\* its id is deliverable (the Ack that follows touches only the in-flight set)
RetryStep ==
    [][ \A w \in Workers :
          (pc[w] = "enqueue" /\ pc'[w] = "ack") =>
              /\ status'[job[w]] = "pending"
              /\ job[w] \in Range(pending')
              /\ verdict' = verdict ]_vars

\* C20 -- a submission that has reached status succeeded or failed never
\* changes status again: the reclaimer resets only running submissions, also
\* when a lease runs out between SaveResult and the worker's Ack
FinishedStaysFinished ==
    [][ \A i \in Ids :
          status[i] \in {"succeeded", "failed"} => status'[i] = status[i] ]_vars

\* C21 -- after the reclaimer re-queued the expired lease of a submission
\* whose owner died, the worker that reserves the re-queued id gets
\* AcquirePending success, never NotPending: the id is not reservable while
\* the row is still running
RequeuedIsAcquirable ==
    [][ \A w \in Workers :
          (pc[w] = "acquire" /\ pc'[w] # "acquire") =>
              (owns'[w] /\ pc'[w] = "judge") ]_vars

Occurrences(q, x) == Cardinality({k \in 1..Len(q) : q[k] = x})

\* C22 -- RequeueExpired(now) is one atomic step that removes from the
\* in-flight set exactly the members with score <= now, pushes each of them
\* once onto the pending list and returns exactly them; members with a later
\* score and what was on the pending list stay as they were, and when nothing
\* is expired nothing changes
RequeueFrame ==
    [][ LET r == RequeueExpired(inflight, pending, now)
            expired == {x \in DOMAIN inflight : inflight[x] <= now}
            n == Cardinality(expired)
        IN  /\ Range(r.vals) = expired
            /\ Len(r.vals) = n
            /\ DOMAIN r.inflight = (DOMAIN inflight) \ expired
            /\ \A x \in DOMAIN r.inflight : r.inflight[x] = inflight[x]
            /\ Len(r.pending) = Len(pending) + n
            /\ SubSeq(r.pending, n + 1, Len(r.pending)) = pending
            /\ \A x \in expired :
                   Occurrences(r.pending, x) = Occurrences(pending, x) + 1
            /\ expired = {} =>
                   (r.vals = <<>> /\ r.inflight = inflight /\ r.pending = pending)
            /\ (Len(pending') > Len(pending) /\ inflight' # inflight) =>
                   (inflight' = r.inflight /\ pending' = r.pending) ]_vars

\* an expired job is back on the pending list in front of one that was
\* pending, while a lease that has not run out is still in flight
RequeuedSome ==
    /\ Len(pending) >= 2
    /\ pending[1] \in Range(qlog)
    /\ pending[2] \notin Range(qlog)
    /\ \E x \in DOMAIN inflight : inflight[x] > now

\* C23 -- every SaveResult call of the worker writes status succeeded if and
\* only if it writes verdict AC; WA, TLE, MLE, OLE, RE, CE and SE go with
\* status failed
StatusByVerdict ==
    Saved =>
        /\ output[1].verdict \in {"AC", "WA", "TLE", "MLE", "OLE", "RE", "CE", "SE"}
        /\ output[1].finalStatus \in {"succeeded", "failed"}
        /\ output[1].finalStatus = "succeeded" <=> output[1].verdict = "AC"
        /\ output[1].finalStatus = FinalStatus(output[1].verdict)

\* a compile error was saved
SavedCompileError ==
    Saved /\ output[1].verdict = "CE" /\ output[1].finalStatus = "failed"

\* C24 -- the run loop stops at the first case that is not AC: the details
\* are those of test cases 1, 2, ... in order, all but possibly the last are
\* AC, a last detail that is not AC gives the verdict, and no later test case
\* is run
StopsAtFirstFailure ==
    (Saved /\ output[1].details # <<>>) =>
        LET ds == output[1].details
            n == Len(ds)
        IN  /\ n <= Len(input.tcs)
            /\ \A k \in 1..n :
                   /\ ds[k].testcase = k
                   /\ ds[k].status = CaseVerdict(input.tcs[k])
            /\ \A k \in 1..(n - 1) : ds[k].status = "AC"
            /\ ds[n].status # "AC" => output[1].verdict = ds[n].status
            /\ ds[n].status = "AC" =>
                   (n = Len(input.tcs) /\ output[1].verdict = "AC")
            /\ output[1].runs = n

\* the first test case failed and the second one was not run
LaterCaseNotRun ==
    /\ Saved
    /\ Len(output[1].details) = 1
    /\ Len(input.tcs) = MaxCases
    /\ output[1].runs = 1
    /\ output[1].verdict = "TLE"

\* the mapping of the sandbox status, as a table
VerdictTable(res) ==
    IF res.status = "Accepted" /\ res.exit = 0 THEN "AC"
    ELSE IF res.status = "Time Limit Exceeded" THEN "TLE"
    ELSE IF res.status = "Memory Limit Exceeded" THEN "MLE"
    ELSE IF res.status = "Output Limit Exceeded" THEN "OLE"
    ELSE "RE"

\* C25 -- mapVerdict maps Accepted with exit 0 to AC, Accepted with another
\* exit code to RE, the three limit statuses to TLE, MLE and OLE, Runtime
\* Error, any other status and a missing response to RE; it never gives WA,
\* CE or SE, and a recorded WA is an AC the checker rejected
VerdictMapping ==
    /\ output # <<>> =>
         \A k \in 1..Len(input.tcs) :
             /\ mapVerdict(input.tcs[k].res) = VerdictTable(input.tcs[k].res)
             /\ mapVerdict(input.tcs[k].res) \notin {"WA", "CE", "SE"}
    /\ Saved =>
         \A k \in 1..Len(output[1].details) :
             LET run == input.tcs[k]
                 st == output[1].details[k].status
             IN  /\ st = "WA" <=> (VerdictTable(run.res) = "AC" /\ ~run.equal)
                 /\ st # "WA" => st = VerdictTable(run.res)

\* a run that exited with a non-zero code although the sandbox accepted it
NonZeroExitIsRE ==
    /\ Saved
    /\ output[1].verdict = "RE"
    /\ LET run == input.tcs[Len(output[1].details)]
       IN  run.res.status = "Accepted" /\ run.res.exit # 0

\* C27 -- missing data is a retryable system error: when the problem lookup
\* fails, the problem has no test cases or the source file cannot be read,
\* Process returns an error and persists no verdict, whether or not the source
\* compiles and whether or not test cases exist
MissingDataIsError ==
    (output # <<>> /\ input.path = "process"
       /\ (~input.source \/ ~input.detail \/ input.tcs = <<>>))
      => (output[1].err /\ ~output[1].saved)

FirstFailedRun(k) ==
    /\ k \in 1..Len(input.tcs)
    /\ input.tcs[k].err
    /\ \A j \in 1..(k - 1) :
           ~input.tcs[j].err /\ CaseVerdict(input.tcs[j]) = "AC"

\* C30 -- a transport error of Compile, or of RunWithArtifact on any test
\* case that is reached, makes Process return an error without calling
\* SaveResult: nothing of the attempt is persisted
TransportErrorNotSaved ==
    (output # <<>> /\ input.path = "process" /\ input.source
       /\ (input.compile = "err"
             \/ (input.compile = "ok" /\ \E k \in 1..Len(input.tcs) : FirstFailedRun(k))))
      => (output[1].err /\ ~output[1].saved /\ output[1].details = <<>>
            /\ output[1].verdict = "")

\* the run of the second test case failed after the first one had passed
ErrorAfterPassedCase ==
    /\ output # <<>>
    /\ output[1].err
    /\ output[1].runs = 2
    /\ FirstFailedRun(2)

Maximum(S) == CHOOSE m \in S : \A x \in S : x <= m

\* C29 -- the time_ms and memory_kb of a persisted run result are the maxima
\* over all test cases when the verdict is AC, and those of the first case
\* that is not AC otherwise
AggregateFigures ==
    (Saved /\ output[1].details # <<>>) =>
        LET ds == output[1].details
        IN  IF output[1].verdict = "AC"
            THEN /\ output[1].timeMS = Maximum({ds[k].timeMS : k \in 1..Len(ds)})
                 /\ output[1].memoryKB = Maximum({ds[k].memoryKB : k \in 1..Len(ds)})
            ELSE /\ output[1].timeMS = Last(ds).timeMS
                 /\ output[1].memoryKB = Last(ds).memoryKB

\* the step in which Process returns verdict v to worker w without an error:
\* the verdict is in the result row, the submission is failed, the worker goes
\* on to the ack, and the step neither counts a retry nor enqueues the id
ReturnedVerdictIsFinal(w, v) ==
    (pc[w] = "judge" /\ ret'[w] = v) =>
        /\ verdict'[job[w]] = v
        /\ status'[job[w]] = "failed"
        /\ pc'[w] = "ack"
        /\ retry_count' = retry_count
        /\ pending' = pending

\* C26 -- when the compilation fails without a transport error, Process
\* persists verdict CE with status failed and returns no error, so that the
\* job is acked, not enqueued again, and its retry_count does not change
CompileErrorIsFinal ==
    [][ \A w \in Workers : ReturnedVerdictIsFinal(w, "CE") ]_vars

\* C28 -- when a run fails by the fault of the submitted program (WA stands
\* for WA, TLE, MLE, OLE and RE), the verdict is persisted with status failed,
\* Process returns no error, the worker counts no retry, does not enqueue the
\* id again, and acks the job
UserFailureIsFinal ==
    [][ \A w \in Workers : ReturnedVerdictIsFinal(w, "WA") ]_vars

\* C31 -- SaveResult is all or nothing: when it succeeds, the status, the
\* result row and the detail rows are those of the given result, the details
\* being exactly result.Details with no row of an earlier attempt left; when
\* it fails, an unknown submission id included, none of them has changed; and
\* it fails exactly when a statement fails or the submission does not exist
SaveAllOrNothing ==
    output # <<>> =>
        IF input.failAt = 0 /\ input.db.status # "none"
        THEN /\ ~output[1].err
             /\ output[1].db = [status |-> FinalStatus(input.verdict),
                                verdict |-> input.verdict,
                                details |-> input.details]
        ELSE /\ output[1].err
             /\ output[1].db = input.db

\* a successful save over the detail rows of an earlier attempt
SavedOverOldDetails ==
    /\ output # <<>>
    /\ ~output[1].err
    /\ input.db.details # <<>>
    /\ Len(input.details) < Len(input.db.details)

HeartbeatStatus ==
    /\ [](IF hb.status = "starting"
          THEN hb.running_count = 0 /\ hb.running = {}
          ELSE /\ hb.status \in {"idle", "busy"}
               /\ hb.status = "idle" <=> hb.running_count = 0)
    /\ [][hb' # hb => hb'.status # "starting"]_vars

\* the last running job has finished
HeartbeatIdleAgain ==
    /\ hb.status = "idle"
    /\ hb.running_count = 0

\* C36 -- running_count is the number of worker goroutines that are between
\* a Reserve that returned a job and the end of that job: it never exceeds
\* the concurrency and is 0 whenever all workers are back in the reserve loop
RunningCountIsBusyWorkers ==
    hb.running_count = Cardinality({w \in Workers : pc[w] = "process"})

\* C37 -- retry_count never decreases; the worker adds exactly one for every
\* error of Process other than NotPending, the reclaimer adds exactly one for
\* every id its RequeueExpired returned, and no other step changes it
RetryCountSteps ==
    [][ /\ \A i \in Ids : retry_count'[i] >= retry_count[i]
        /\ \A w \in Workers :
             (pc[w] = "incRetry" /\ pc'[w] # "incRetry") =>
                 retry_count' =
                     [retry_count EXCEPT ![job[w]] = retry_count[job[w]] + 1]
        /\ (rpc = "inc" /\ rpc' # "inc") =>
               retry_count' =
                   [retry_count EXCEPT ![Head(rjobs)] = retry_count[Head(rjobs)] + 1]
        /\ ((\A w \in Workers : pc[w] = "incRetry" => pc'[w] = "incRetry")
              /\ (rpc = "inc" => rpc' = "inc")) =>
               retry_count' = retry_count ]_vars

\* C39 -- after a Compile that succeeded, and so left an artifact in the
\* sandbox, Process attempts RemoveFiles on every way out: all cases passed,
\* a first failing case, a transport error during a run, and an error of the
\* test case listing
ArtifactRemoved ==
    (output # <<>> /\ input.path = "process" /\ input.source
       /\ input.compile = "ok")
      => output[1].removed

\* C38 -- an id is enqueued only after its row exists with status pending and
\* its source path recorded, and an intake that failed at any step, Enqueue
\* included, has deleted the row: no queue entry refers to a row without a
\* source path, and once intake has ended no row it created, still pending
\* and not yet taken by a worker, is without a queue entry
IntakeOrdering ==
    \A i \in Ids :
        /\ (InPending(i) \/ InFlight(i) \/ Held(i)) =>
               (status[i] # "none" /\ source_path[i])
        /\ ipc[i] = "failed" => status[i] = "none"
        /\ (ipc[i] \in {"done", "failed"} /\ status[i] = "pending"
              /\ acquired[i] = 0) =>
               (InPending(i) \/ InFlight(i) \/ Held(i))

\* C32 -- once the cancellation token is tripped, a job that a worker holds
\* and has not acked is not acked as finished: no step changes the pending
\* list, the in-flight set or any row, so its entry stays where it is, every
\* in-flight entry is re-queued by a RequeueExpired at its lease expiry, and
\* no verdict is written
CancelKeepsJob ==
    [][ cancelled =>
          /\ dbVars' = dbVars
          /\ queueVars' = queueVars
          /\ \A i \in DOMAIN inflight' :
                i \in Range(RequeueExpired(inflight', pending', inflight'[i]).pending) ]_vars

\* every worker has returned after the cancellation and the job one of them
\* held is still in the in-flight set, its row running
CancelledJobInFlight ==
    /\ cancelled
    /\ \A w \in Workers : pc[w] = "done"
    /\ \E i \in Ids : InFlight(i) /\ status[i] = "running"

\* C33 -- after the cancellation every worker goroutine, the reclaimer and
\* the heartbeat task eventually end, and a worker that is in its reserve loop
\* when it sees the cancellation starts no further job
CancelTerminates ==
    /\ cancelled ~> AllDone
    /\ [][ \A w \in Workers :
             (cancelled /\ pc[w] \in {"reserve", "done"}) =>
                 pc'[w] \in {pc[w], "done"} ]_vars

\* everything has ended while a job was left unfinished
AllDoneWithJobLeft ==
    /\ AllDone
    /\ inflight # <<>>

====
